---- MODULE Spec2Model ----
(***************************************************************************)
(* Model of src/app.py, the Streamlit "AI Green Space Analyzer".           *)
(*                                                                         *)
(* Three specifications share the module:                                  *)
(*   Spec      the session-state machine of the script (one step per       *)
(*             script run, then one step per stage of the analysis block); *)
(*   SpecStats calculate_vegetation_stats and the metric arithmetic, on    *)
(*             bounded pixel counts, in exact rational arithmetic;         *)
(*   SpecNDVI  mask_s2_clouds and add_indices on bounded images.           *)
(* Floating-point rounding is not modelled: numbers are exact rationals.   *)
(***************************************************************************)
EXTENDS Integers, Sequences, FiniteSets, TLC

VARIABLES
    saved_geometry,       \* st.session_state.saved_geometry
    analysis_run,         \* st.session_state.analysis_run
    last_active_drawing,  \* map_output["last_active_drawing"], kept by the widget
    pc,                   \* position of the current script run
    roi,                  \* the coordinate list given to ee.Geometry.Polygon
    log,                  \* engine calls made by the current script run
    reported,             \* what the current script run has rendered
    run_clicked_for,      \* history: geometry saved when Run was last clicked
    cleared,              \* history: geometry removed by the last Clear click
    pixels,               \* SpecStats: the engine's reduceRegion results
    stats_2018,           \* SpecStats: calculate_vegetation_stats(historical)
    stats_2024,           \* SpecStats: calculate_vegetation_stats(recent)
    metrics,              \* SpecStats: the values handed to st.metric
    spc,                  \* SpecStats: position in the statistics block
    image,                \* SpecNDVI: the image being processed
    input_image,          \* SpecNDVI: the image add_indices received
    ipc                   \* SpecNDVI: position in line 145

appVars   == <<saved_geometry, analysis_run, last_active_drawing, pc, roi, log,
               reported, run_clicked_for, cleared>>
statsVars == <<pixels, stats_2018, stats_2024, metrics, spc>>
ndviVars  == <<image, input_image, ipc>>
vars      == <<appVars, statsVars, ndviVars>>

(***************************************************************************)
(* Bounds                                                                  *)
(***************************************************************************)
MaxCoord  == 1   \* coordinates are 0 .. MaxCoord tenths of a degree
MaxPixels == 4   \* largest pixel count reduceRegion returns
MaxDN     == 2   \* largest raw reflectance of a band

(***************************************************************************)
(* Python values                                                           *)
(***************************************************************************)
\* Python's None, where a geometry or a drawing is expected.
None == [type |-> "None", coordinates |-> << >>]

\* A coordinate is a float with one decimal digit, held as a count of tenths.
Coord    == 0 .. MaxCoord
Vertex   == Coord \X Coord
\* "coordinates" of a GeoJSON polygon: a list holding one ring of vertices.
CoordLists == {<<ring>> : ring \in Vertex \X Vertex}
Geometries == [type : {"Polygon"}, coordinates : CoordLists]
Drawings   == [type : {"Feature"}, geometry : Geometries]

DigitChar(d) == <<"0", "1", "2", "3", "4", "5", "6", "7", "8", "9">>[d + 1]

RECURSIVE IntDigits(_)
IntDigits(n) ==
    IF n < 10 THEN <<DigitChar(n)>>
    ELSE IntDigits(n \div 10) \o <<DigitChar(n % 10)>>

\* A repr() that drops the fractional digit.
ReprFloatLossy(t) ==
    LET a == IF t < 0 THEN -t ELSE t
    IN  (IF t < 0 THEN <<"-">> ELSE << >>)
        \o IntDigits(a \div 10) \o <<".">> \o <<DigitChar(0)>>

\* repr() of a float: shortest text that reads back as the same float.
ReprFloat(t) ==
    LET a == IF t < 0 THEN -t ELSE t
    IN  (IF t < 0 THEN <<"-">> ELSE << >>)
        \o IntDigits(a \div 10) \o <<".">> \o <<DigitChar(a % 10)>>

RECURSIVE JoinComma(_)
JoinComma(items) ==
    IF Len(items) = 0 THEN << >>
    ELSE IF Len(items) = 1 THEN items[1]
    ELSE items[1] \o <<",", " ">> \o JoinComma(Tail(items))

\* str() of a list whose items have the given texts.
StrList(items) == <<"[">> \o JoinComma(items) \o <<"]">>

StrVertex(v) == StrList(<<ReprFloat(v[1]), ReprFloat(v[2])>>)
StrRing(r)   == StrList([i \in 1 .. Len(r) |-> StrVertex(r[i])])
\* str(geometry["coordinates"])
StrCoords(c) == StrList([i \in 1 .. Len(c) |-> StrRing(c[i])])

\* Truthiness of session_state.saved_geometry (None or a non-empty dict).
Truthy(g) == g # None

(***************************************************************************)
(* The script (Spec)                                                       *)
(***************************************************************************)
Periods == {"2018", "2024"}
Call(op, period) == [op |-> op, period |-> period]

AnalysisPcs == {"images", "process", "thumbs", "stats2018", "stats2024",
                "report", "fallback"}

NoRoi == << >>

\* History value: Run was clicked for a geometry that has since been replaced.
Revoked == [type |-> "Revoked", coordinates |-> << >>]

Init ==
    /\ saved_geometry = None
    /\ analysis_run = FALSE
    /\ last_active_drawing = None
    /\ pc = "idle"
    /\ roi = NoRoi
    /\ log = << >>
    /\ reported = "nothing"
    /\ run_clicked_for = None
    /\ cleared = None
    /\ pixels = << >>
    /\ stats_2018 = << >>
    /\ stats_2024 = << >>
    /\ metrics = << >>
    /\ spc = "off"
    /\ image = << >>
    /\ input_image = << >>
    /\ ipc = "off"

\* Lines 73-78: the map reports a drawing whose text differs from the saved one.
DrawingChanged(drawing, saved) ==
    /\ drawing # None
    /\ \/ saved = None
       \/ StrCoords(saved.coordinates) # StrCoords(drawing.geometry.coordinates)

\* A Clear block without line 89.
ClearKeepsRun == [saved_geometry |-> None, analysis_run |-> analysis_run]

\* Lines 87-90: the session state after the Clear button's block.
ClearState == [saved_geometry |-> None, analysis_run |-> FALSE]

\* A capture without line 80.
CaptureKeepsRun(drawing) ==
    [saved_geometry |-> drawing.geometry, analysis_run |-> analysis_run]

\* Lines 79-80: the session state after a changed drawing is captured.
CaptureState(drawing) ==
    [saved_geometry |-> drawing.geometry, analysis_run |-> FALSE]

\* One run of the script from line 53 to the gate of line 100, with the widget
\* values of this run: the drawing and which button (if any) reads True.
ScriptRun(drawing, clear_clicked, run_clicked) ==
    /\ last_active_drawing' = drawing
    /\ log' = << >>
    /\ reported' = "nothing"
    /\ IF DrawingChanged(drawing, saved_geometry)
       THEN /\ saved_geometry' = CaptureState(drawing).saved_geometry
            /\ analysis_run' = CaptureState(drawing).analysis_run
            /\ pc' = "rerun"
            /\ roi' = NoRoi
       ELSE IF Truthy(saved_geometry) /\ clear_clicked
       THEN /\ saved_geometry' = ClearState.saved_geometry
            /\ analysis_run' = ClearState.analysis_run
            /\ pc' = "rerun"
            /\ roi' = NoRoi
       ELSE /\ saved_geometry' = saved_geometry
            /\ analysis_run' = (analysis_run \/ (Truthy(saved_geometry) /\ run_clicked))
            /\ IF Truthy(saved_geometry) /\ analysis_run'
               THEN /\ roi' = saved_geometry.coordinates
                    /\ pc' = "images"
               ELSE /\ roi' = NoRoi
                    /\ pc' = "idle"
    \* history variables
    /\ run_clicked_for' =
         IF saved_geometry' # saved_geometry
         THEN (IF run_clicked_for = None THEN None ELSE Revoked)
         ELSE IF Truthy(saved_geometry) /\ run_clicked THEN saved_geometry
         ELSE run_clicked_for
    /\ cleared' =
         IF drawing # None /\ cleared # None
            /\ drawing.geometry.coordinates # cleared.coordinates THEN None
         ELSE IF Truthy(saved_geometry) /\ clear_clicked
                 /\ ~DrawingChanged(drawing, saved_geometry) THEN saved_geometry
         ELSE cleared
    /\ UNCHANGED <<statsVars, ndviVars>>

\* The user draws a shape: the widget reports it and the script runs.
Draw ==
    /\ pc # "rerun"
    /\ \E d \in Drawings : ScriptRun(d, FALSE, FALSE)

\* The user clicks "Clear Drawing" (rendered only while a geometry is saved).
ClickClear ==
    /\ pc # "rerun"
    /\ Truthy(saved_geometry)
    /\ ScriptRun(last_active_drawing, TRUE, FALSE)

\* The user clicks "Run AI Analysis" (rendered only while a geometry is saved).
ClickRun ==
    /\ pc # "rerun"
    /\ Truthy(saved_geometry)
    /\ ScriptRun(last_active_drawing, FALSE, TRUE)

\* st.rerun(), or a rerun caused by panning or zooming the map: no button
\* reads True and the widget keeps its last drawing.
Rerun ==
    /\ pc \in {"rerun", "idle"}
    /\ ScriptRun(last_active_drawing, FALSE, FALSE)

\* Lines 118-142: the least cloudy image of each period is selected (filterBounds,
\* filterDate, filter, sort, first); getInfo raises when a period has no image.
SelectCalls == <<Call("select", "2024"), Call("select", "2018")>>

GetImages ==
    /\ pc = "images"
    /\ log' = log \o SelectCalls
    /\ \E found \in BOOLEAN :
         IF found
         THEN pc' = "process" /\ reported' = reported
         ELSE pc' = "idle" /\ reported' = "no_images"
    /\ UNCHANGED <<saved_geometry, analysis_run, last_active_drawing, roi,
                   run_clicked_for, cleared, statsVars, ndviVars>>

\* A line 145 that computes the index on the unmasked image.
ProcessCallsUnmasked(period) ==
    <<Call("ndvi", period), Call("mask", period), Call("clip", period)>>

\* Lines 145 and 146: add_indices(mask_s2_clouds(image)).clip(roi)
ProcessCalls(period) ==
    <<Call("mask", period), Call("ndvi", period), Call("clip", period)>>

Process ==
    /\ pc = "process"
    /\ log' = log \o ProcessCalls("2024") \o ProcessCalls("2018")
    /\ pc' = "thumbs"
    /\ UNCHANGED <<saved_geometry, analysis_run, last_active_drawing, roi, reported,
                   run_clicked_for, cleared, statsVars, ndviVars>>

\* Lines 166-211: roi.bounds().getInfo() may raise (caught at line 330); a
\* thumbnail that cannot be made only shows a warning.
ThumbCalls(period) == <<Call("thumb", period), Call("thumb", period)>>

Thumbs ==
    /\ pc = "thumbs"
    /\ \E bounds_ok \in BOOLEAN :
         IF bounds_ok
         THEN /\ log' = log \o ThumbCalls("2024") \o ThumbCalls("2018")
              /\ pc' = "stats2018"
              /\ reported' = reported
         ELSE /\ log' = log
              /\ pc' = "idle"
              /\ reported' = "failed"
    /\ UNCHANGED <<saved_geometry, analysis_run, last_active_drawing, roi,
                   run_clicked_for, cleared, statsVars, ndviVars>>

\* Lines 221-240: the reduceRegion calls of calculate_vegetation_stats, of which
\* the first `made` are made (count, dense sum, moderate sum).
ReduceCalls(period, made) == [i \in 1 .. made |-> Call("reduce", period)]

\* Lines 216-252 for one period: a call may raise, and so may the division by
\* total_pixels after the three calls; line 314 then takes over.
StatsStep(period, next) ==
    \E made \in 1 .. Len(ReduceCalls(period, 3)), ok \in BOOLEAN :
        /\ ok => made = Len(ReduceCalls(period, 3))
        /\ log' = log \o ReduceCalls(period, made)
        /\ pc' = IF ok THEN next ELSE "fallback"

\* Line 256
Stats2018 ==
    /\ pc = "stats2018"
    /\ StatsStep("2018", "stats2024")
    /\ UNCHANGED <<saved_geometry, analysis_run, last_active_drawing, roi, reported,
                   run_clicked_for, cleared, statsVars, ndviVars>>

\* Line 257
Stats2024 ==
    /\ pc = "stats2024"
    /\ StatsStep("2024", "report")
    /\ UNCHANGED <<saved_geometry, analysis_run, last_active_drawing, roi, reported,
                   run_clicked_for, cleared, statsVars, ndviVars>>

\* Lines 259-312: the three metrics, the change summary and the breakdown.
Report ==
    /\ pc = "report"
    /\ reported' = "stats"
    /\ pc' = "idle"
    /\ UNCHANGED <<saved_geometry, analysis_run, last_active_drawing, roi, log,
                   run_clicked_for, cleared, statsVars, ndviVars>>

\* Lines 317-328: mean NDVI of 2018, then of 2024; either call may raise.
FallbackCalls == <<Call("reduce", "2018"), Call("reduce", "2024")>>

Fallback ==
    /\ pc = "fallback"
    /\ \E made \in 1 .. Len(FallbackCalls), ok \in BOOLEAN :
         /\ ok => made = Len(FallbackCalls)
         /\ log' = log \o SubSeq(FallbackCalls, 1, made)
         /\ reported' = IF ok THEN "fallback" ELSE "unable"
    /\ pc' = "idle"
    /\ UNCHANGED <<saved_geometry, analysis_run, last_active_drawing, roi,
                   run_clicked_for, cleared, statsVars, ndviVars>>

Next ==
    \/ Draw
    \/ ClickClear
    \/ ClickRun
    \/ Rerun
    \/ GetImages
    \/ Process
    \/ Thumbs
    \/ Stats2018
    \/ Stats2024
    \/ Report
    \/ Fallback

Spec == Init /\ [][Next]_vars

(***************************************************************************)
(* Exact rational arithmetic for Python's float expressions                *)
(***************************************************************************)
Abs(x) == IF x < 0 THEN -x ELSE x

RECURSIVE GCD(_, _)
GCD(a, b) == IF b = 0 THEN a ELSE GCD(b, a % b)

\* The rational n/d (d # 0) in lowest terms with a positive denominator.
Frac(n, d) ==
    LET g == GCD(Abs(n), Abs(d))
        sgn == IF d < 0 THEN -1 ELSE 1
    IN  [n |-> (sgn * n) \div g, d |-> (sgn * d) \div g]

FracInt(k)    == Frac(k, 1)
FracAdd(a, b) == Frac(a.n * b.d + b.n * a.d, a.d * b.d)
FracSub(a, b) == Frac(a.n * b.d - b.n * a.d, a.d * b.d)
FracMul(a, b) == Frac(a.n * b.n, a.d * b.d)
FracDiv(a, b) == Frac(a.n * b.d, a.d * b.n)
FracGt(a, b)  == a.n * b.d > b.n * a.d
FracLt(a, b)  == a.n * b.d < b.n * a.d

(***************************************************************************)
(* calculate_vegetation_stats and the metrics (SpecStats)                  *)
(***************************************************************************)
\* What the three reduceRegion calls return for one image: the count of valid
\* pixels, the count with NDVI > 0.6 and the count with NDVI > 0.3.
PixelCounts ==
    {c \in [total_pixels : 0 .. MaxPixels, dense_veg : 0 .. MaxPixels,
            moderate_veg : 0 .. MaxPixels] :
        c.dense_veg <= c.moderate_veg /\ c.moderate_veg <= c.total_pixels}

\* Line 251: (total_pixels * 900) / 1000000
AreaKm2(c) == Frac(c.total_pixels * 900, 1000000)

\* Lines 243-252, given the three counts (total_pixels # 0).
calculate_vegetation_stats(c) ==
    LET dense_percent ==
            FracMul(FracDiv(FracInt(c.dense_veg), FracInt(c.total_pixels)), FracInt(100))
        moderate_percent ==
            FracMul(FracDiv(FracInt(c.moderate_veg), FracInt(c.total_pixels)), FracInt(100))
        total_veg_percent == FracAdd(dense_percent, moderate_percent)
    IN  [dense_vegetation    |-> dense_percent,
         moderate_vegetation |-> moderate_percent,
         total_vegetation    |-> total_veg_percent,
         area_km2            |-> AreaKm2(c)]

\* A relative change, (new - old) / old * 100 (the difference when old is 0).
PercentChange(new, old) ==
    IF old.n = 0 THEN FracSub(new, old)
    ELSE FracMul(FracDiv(FracSub(new, old), old), FracInt(100))

\* Lines 273 and 286: stats_2024[...] - stats_2018[...]
Change(new, old) == FracSub(new, old)

\* Lines 289-298: which message the change summary shows.
Summary(veg_change) ==
    IF FracGt(veg_change, FracInt(5)) THEN "significant_increase"
    ELSE IF FracGt(veg_change, FracInt(1)) THEN "improvement"
    ELSE IF FracLt(veg_change, FracInt(-5)) THEN "significant_loss"
    ELSE IF FracLt(veg_change, FracInt(-1)) THEN "decrease"
    ELSE "stable"

InitStats ==
    /\ saved_geometry = None
    /\ analysis_run = FALSE
    /\ last_active_drawing = None
    /\ pc = "off"
    /\ roi = NoRoi
    /\ log = << >>
    /\ reported = "nothing"
    /\ run_clicked_for = None
    /\ cleared = None
    /\ pixels \in [Periods -> PixelCounts]
    /\ stats_2018 = << >>
    /\ stats_2024 = << >>
    /\ metrics = << >>
    /\ spc = "stats2018"
    /\ image = << >>
    /\ input_image = << >>
    /\ ipc = "off"

\* Line 256; the division by a zero total_pixels raises (line 314).
CalcStats2018 ==
    /\ spc = "stats2018"
    /\ IF pixels["2018"].total_pixels = 0
       THEN spc' = "fallback" /\ stats_2018' = stats_2018
       ELSE /\ stats_2018' = calculate_vegetation_stats(pixels["2018"])
            /\ spc' = "stats2024"
    /\ UNCHANGED <<pixels, stats_2024, metrics, appVars, ndviVars>>

\* Line 257
CalcStats2024 ==
    /\ spc = "stats2024"
    /\ IF pixels["2024"].total_pixels = 0
       THEN spc' = "fallback" /\ stats_2024' = stats_2024
       ELSE /\ stats_2024' = calculate_vegetation_stats(pixels["2024"])
            /\ spc' = "display"
    /\ UNCHANGED <<pixels, stats_2018, metrics, appVars, ndviVars>>

\* Lines 260-298: the values and deltas given to st.metric, and veg_change.
DisplayMetrics ==
    /\ spc = "display"
    /\ metrics' =
         [area_value     |-> stats_2024.area_km2,
          area_delta     |-> FracSub(stats_2024.area_km2, stats_2018.area_km2),
          coverage_value |-> stats_2024.total_vegetation,
          coverage_delta |-> Change(stats_2024.total_vegetation,
                                    stats_2018.total_vegetation),
          dense_value    |-> stats_2024.dense_vegetation,
          dense_delta    |-> FracSub(stats_2024.dense_vegetation,
                                     stats_2018.dense_vegetation),
          veg_change     |-> Change(stats_2024.total_vegetation,
                                    stats_2018.total_vegetation),
          summary        |-> Summary(Change(stats_2024.total_vegetation,
                                            stats_2018.total_vegetation))]
    /\ spc' = "done"
    /\ UNCHANGED <<pixels, stats_2018, stats_2024, appVars, ndviVars>>

NextStats ==
    \/ CalcStats2018
    \/ CalcStats2024
    \/ DisplayMetrics

SpecStats == InitStats /\ [][NextStats]_vars

(***************************************************************************)
(* mask_s2_clouds and add_indices (SpecNDVI)                               *)
(***************************************************************************)
\* An image is a function from band names to bands; a band gives each pixel
\* a value, a rational that is either valid or masked.
Pixels    == {"p1", "p2"}
RawBands  == {"B4", "B8", "SCL"}
\* Scene classes: 3 cloud shadow, 4 vegetation, 8 and 9 cloud.
SclValues == {3, 4, 8, 9}

Value(v)     == [masked |-> FALSE, n |-> v.n, d |-> v.d]
MaskedOf(pv) == [masked |-> TRUE, n |-> pv.n, d |-> pv.d]
ValueOf(pv)  == [n |-> pv.n, d |-> pv.d]

RawImages ==
    {[b \in RawBands |-> [p \in Pixels |->
          Value(FracInt(IF b = "SCL" THEN scl[p] ELSE IF b = "B4" THEN b4[p] ELSE b8[p]))]] :
        scl \in [Pixels -> SclValues],
        b4 \in [Pixels -> 0 .. MaxDN],
        b8 \in [Pixels -> 0 .. MaxDN]}

\* Lines 31-34: pixels of scene class 3, 8 or 9 are masked in every band, and
\* every band is divided by 10000.
mask_s2_clouds(img) ==
    LET qa == img["SCL"]
        cloud_mask(p) == ValueOf(qa[p]) \notin {FracInt(3), FracInt(8), FracInt(9)}
    IN  [b \in DOMAIN img |-> [p \in Pixels |->
            LET scaled == FracDiv(ValueOf(img[b][p]), FracInt(10000))
            IN  IF img[b][p].masked \/ ~cloud_mask(p)
                THEN MaskedOf(scaled)
                ELSE Value(scaled)]]

\* A normalized difference with the bands the other way round.
SwappedDifference(img, first, second, zero_sum) ==
    [p \in Pixels |->
        LET a == img[second][p]
            b == img[first][p]
            sum == FracAdd(ValueOf(a), ValueOf(b))
        IN  IF a.masked \/ b.masked \/ a.n < 0 \/ b.n < 0 THEN MaskedOf(FracInt(0))
            ELSE IF sum.n = 0 THEN zero_sum
            ELSE Value(FracDiv(FracSub(ValueOf(a), ValueOf(b)), sum))]

\* Line 37: image.normalizedDifference([first, second]), (first - second) /
\* (first + second) at each pixel; masked where an input is masked or negative.
\* `zero_sum` is what the engine yields where first + second = 0.
normalizedDifference(img, first, second, zero_sum) ==
    [p \in Pixels |->
        LET a == img[first][p]
            b == img[second][p]
            sum == FracAdd(ValueOf(a), ValueOf(b))
        IN  IF a.masked \/ b.masked \/ a.n < 0 \/ b.n < 0 THEN MaskedOf(FracInt(0))
            ELSE IF sum.n = 0 THEN zero_sum
            ELSE Value(FracDiv(FracSub(ValueOf(a), ValueOf(b)), sum))]

\* Lines 36-38: the image with the band 'NDVI' added.
add_indices(img, zero_sum) ==
    LET ndvi == normalizedDifference(img, "B8", "B4", zero_sum)
    IN  [b \in DOMAIN img \cup {"NDVI"} |-> IF b = "NDVI" THEN ndvi ELSE img[b]]

InitNDVI ==
    /\ saved_geometry = None
    /\ analysis_run = FALSE
    /\ last_active_drawing = None
    /\ pc = "off"
    /\ roi = NoRoi
    /\ log = << >>
    /\ reported = "nothing"
    /\ run_clicked_for = None
    /\ cleared = None
    /\ pixels = << >>
    /\ stats_2018 = << >>
    /\ stats_2024 = << >>
    /\ metrics = << >>
    /\ spc = "off"
    /\ image \in RawImages
    /\ input_image = << >>
    /\ ipc = "selected"

\* Line 145, inner call: mask_s2_clouds(recent_image)
MaskS2Clouds ==
    /\ ipc = "selected"
    /\ image' = mask_s2_clouds(image)
    /\ ipc' = "masked"
    /\ UNCHANGED <<input_image, appVars, statsVars>>

\* Line 145, outer call: add_indices(...). Where B8 + B4 = 0 the engine's
\* result is not fixed by this code: a masked pixel or the value 0.
AddIndices ==
    /\ ipc = "masked"
    /\ input_image' = image
    /\ \E zero_sum \in {MaskedOf(FracInt(0)), Value(FracInt(0))} :
           image' = add_indices(image, zero_sum)
    /\ ipc' = "indexed"
    /\ UNCHANGED <<appVars, statsVars>>

NextNDVI ==
    \/ MaskS2Clouds
    \/ AddIndices

SpecNDVI == InitNDVI /\ [][NextNDVI]_vars

(***************************************************************************)
(* Claims checked under Spec                                               *)
(***************************************************************************)
\* The delegated steps of one period, in the order this run made them.
OpsOf(l, period, ops) ==
    LET Mine(c) == c.period = period /\ c.op \in ops
        sel == SelectSeq(l, Mine)
    IN  [i \in 1 .. Len(sel) |-> sel[i].op]

EngineSteps == {"select", "mask", "ndvi", "median", "kmeans", "clip", "reduce"}

\* C4: whenever the analysis block has built its region, the coordinate list
\* given to ee.Geometry.Polygon is the coordinate list of the drawing the map
\* widget reported last: same vertices, same order, same values.
C4_PolygonRoundTrip ==
    roi # NoRoi =>
        /\ last_active_drawing # None
        /\ roi = last_active_drawing.geometry.coordinates

\* The analysis runs on a ring whose two vertices differ and whose values differ.
C4_Witness ==
    /\ pc = "report"
    /\ roi = last_active_drawing.geometry.coordinates
    /\ roi[1][1] # roi[1][2]
    /\ roi[1][1][1] # roi[1][1][2]

C6_AnalysisGate ==
    /\ analysis_run => saved_geometry # None
    /\ pc \in AnalysisPcs => (Truthy(saved_geometry) /\ analysis_run)

\* The analysis block is executing after a Run click.
C6_Witness == pc = "stats2024" /\ analysis_run /\ saved_geometry # None

\* C7 as claimed: from a Clear click until the map reports a drawing with other
\* coordinates, saved_geometry is None.
C7_ClearedStaysNone == cleared # None => saved_geometry = None

\* C8: a captured drawing that differs from the saved geometry replaces it and
\* resets analysis_run in the same step, and the analysis block only executes
\* on a geometry for which Run was clicked since it was saved.
C8_RunOnlyForClickedGeometry ==
    /\ [](pc \in AnalysisPcs =>
            /\ run_clicked_for \notin {None, Revoked}
            /\ run_clicked_for = saved_geometry
            /\ run_clicked_for.coordinates = roi)
    /\ [][saved_geometry' # saved_geometry => ~analysis_run']_vars
    /\ [][(DrawingChanged(last_active_drawing', saved_geometry)
             /\ log' = << >> /\ pc' = "rerun")
            => saved_geometry' = last_active_drawing'.geometry]_vars

\* A drawing replaced the geometry for which Run had been clicked.
C8_Witness ==
    /\ pc = "rerun"
    /\ run_clicked_for = Revoked
    /\ cleared = None
    /\ saved_geometry # None
    /\ ~analysis_run

(***************************************************************************)
(* Claims checked under SpecStats                                          *)
(***************************************************************************)
\* C1 as claimed: the area shown as "Total Vegetation Area", and area_km2 of
\* each period, is the area of that period's vegetation pixels (900 m2 each)
\* divided by 1e6; other pixels contribute nothing.
C1_VegetationAreaOnly ==
    spc = "done" =>
        /\ stats_2018.area_km2.n * 1000000
             = pixels["2018"].moderate_veg * 900 * stats_2018.area_km2.d
        /\ stats_2024.area_km2.n * 1000000
             = pixels["2024"].moderate_veg * 900 * stats_2024.area_km2.d
        /\ metrics.area_value = stats_2024.area_km2

\* C2 as claimed: the coverage delta and veg_change are (new-old)/old*100.
C2_Claimed ==
    (spc = "done" /\ stats_2018.total_vegetation.n # 0) =>
        LET new == stats_2024.total_vegetation
            old == stats_2018.total_vegetation
            \* v * old = (new - old) * 100, cross-multiplied
            IsPercentChange(v) ==
                v.n * old.n * new.d * old.d
                    = v.d * old.d * 100 * (new.n * old.d - old.n * new.d)
        IN  /\ IsPercentChange(metrics.veg_change)
            /\ IsPercentChange(metrics.coverage_delta)

\* C2 amended: the coverage delta and veg_change are new - old, the difference
\* in percentage points between the 2024 and the 2018 total_vegetation, where
\* total_vegetation is dense_veg/total*100 + moderate_veg/total*100.
C2_DifferenceInPoints ==
    spc = "done" =>
        LET c18 == pixels["2018"]
            c24 == pixels["2024"]
            \* v * t24 * t18 = 100 * ((d24 + m24) * t18 - (d18 + m18) * t24)
            IsDifference(v) ==
                v.n * c24.total_pixels * c18.total_pixels
                    = v.d * 100
                        * ((c24.dense_veg + c24.moderate_veg) * c18.total_pixels
                           - (c18.dense_veg + c18.moderate_veg) * c24.total_pixels)
        IN  /\ IsDifference(metrics.veg_change)
            /\ IsDifference(metrics.coverage_delta)

\* Both periods have vegetation and the coverage changed.
C2_Witness ==
    /\ spc = "done"
    /\ stats_2018.total_vegetation.n # 0
    /\ metrics.veg_change.n # 0
    /\ metrics.summary = "significant_loss"

(***************************************************************************)
(* Claims checked under SpecNDVI                                           *)
(***************************************************************************)
\* C3: add_indices adds a band 'NDVI' whose value, at every pixel where B8 and
\* B4 of its input are valid and B8 + B4 # 0, is (B8 - B4) / (B8 + B4), and
\* every band of the input is in the result unchanged.
C3_NDVIBand ==
    ipc = "indexed" =>
        /\ DOMAIN image = DOMAIN input_image \cup {"NDVI"}
        /\ \A b \in DOMAIN input_image : image[b] = input_image[b]
        /\ \A p \in Pixels :
             LET b8 == input_image["B8"][p]
                 b4 == input_image["B4"][p]
                 nd == image["NDVI"][p]
             IN  (~b8.masked /\ ~b4.masked /\ b8.n * b4.d + b4.n * b8.d # 0) =>
                    /\ ~nd.masked
                    \* nd * (b8 + b4) = b8 - b4, cross-multiplied
                    /\ nd.n * (b8.n * b4.d + b4.n * b8.d)
                         = nd.d * (b8.n * b4.d - b4.n * b8.d)

\* A valid pixel with B8 # B4 has received a nonzero NDVI.
C3_Witness ==
    /\ ipc = "indexed"
    /\ \E p \in Pixels :
         /\ ~image["NDVI"][p].masked
         /\ image["NDVI"][p].n > 0
         /\ input_image["B4"][p].n > 0

====
